---------------------------- MODULE Spec2Model ----------------------------
(***************************************************************************)
(* The scatter <-> tree blend of yumanmok/xmas.                            *)
(*                                                                         *)
(* Two programs of src/index.tsx are modelled, chosen at Init:             *)
(*   "V1"  index.tsx 1-583    Foliage (damp rate 3), Ornaments (4),        *)
(*                            PhotoItem (4); the shader mixes linearly.    *)
(*                            part_000 and part_001 share this code.       *)
(*   "V2"  index.tsx 586-1415 Foliage (rate 4 assembling, 2.5 scattering,  *)
(*                            shader eases uMix through cubicInOut),       *)
(*                            Ornaments (6 / 3).                           *)
(*                                                                         *)
(* Numbers.  A JavaScript number is modelled by an exact dyadic rational   *)
(* [n |-> numerator, e |-> binary places], value n / 2^e, kept normalised. *)
(* A frame's delta is d * ln 2 seconds for an integer d, so that           *)
(* Math.exp(-lambda * delta) = 2^-(lambda * d) is a dyadic rational when   *)
(* lambda * d is an integer, and every product and sum of damp is exact.   *)
(* Math.exp returns 0 once its argument is below the binary64 range        *)
(* (lambda * d >= Underflow): a frame after a long pause (LongDelta) puts  *)
(* the blend value exactly on its target.                                  *)
(*                                                                         *)
(* The cosmetic displacement the shaders and the V2 ornaments add on top   *)
(* of the interpolated position (flow, breathing, wave) is left out: the   *)
(* positions of the model are the base positions.                          *)
(***************************************************************************)
EXTENDS Integers, Sequences, FiniteSets, TLC

VARIABLES
  variant,      \* which program runs: "V1" or "V2"
  isTree,       \* App: const [isTree, setIsTree] = useState(true)
  sceneIsTree,  \* the isTree prop captured by the mounted useFrame callbacks
  data,         \* per group: the scatter and tree endpoint of every particle
  mixVal,       \* per group: the blend value (uMix, mixVal.current, mix.current)
  position,     \* per CPU group: the positions its last useFrame wrote
  delta,        \* the delta of the last frame, NoFrame before the first one
  last,         \* the last event: "mount", "click", "commit" or "frame"
  runStart,     \* per group: the blend value when sceneIsTree last changed
  runTime,      \* the deltas added up since then (saturating at LongDelta)
  facing,       \* whether the last frame turned the photo frame to the axis
  isMobile,     \* Scene (part_001): const isMobile = size.width < 768
  sampler,      \* one call of a sampler or of damp: its arguments, draws
                \* and result
  photo,        \* one PhotoItem: its url, effect, loads and textures
  snow,         \* Snow (part_001): its position array and last frame
  gallery,      \* PhotoGallery (second program): its photos, their
                \* textures, and the state of the TextureErrorBoundary
  app,          \* App: the clicks on the button so far and the setIsTree
                \* updates that wait for the next render
  selected,     \* App: const [selected, setSelected] = useState(null)
  music         \* MusicPlayer: its playing flag and its audio element

vars == <<variant, isTree, sceneIsTree, data, mixVal, position, delta, last,
          runStart, runTime, facing, isMobile, sampler, photo, snow, gallery,
          app, selected, music>>

\* the components beside the blending groups and the photo item
page == <<snow, gallery, app, selected, music>>

\* what the blend leaves alone
aside == <<isMobile, sampler, photo, page>>

---------------------------------------------------------------------------
(* Bounds of the model. *)

\* binary places a blend value may use
MaxExp == 24
\* ordinary frames have a delta of 0 .. MaxDelta units
MaxDelta == 2
\* particles per group (the source's count)
NParticles == 2
\* particles per group on a narrow viewport (part_001: isMobile ? 35 : 75)
NMobile == 1
\* random streams Math.random() may follow at mount
NSeeds == 2

---------------------------------------------------------------------------
(* Dyadic rationals: the arithmetic of JavaScript numbers, exact. *)

\* Every operator of the arithmetic binds its arguments before it uses them,
\* so that an argument which is itself a formula is computed once.

RECURSIVE Reduce(_, _)
Reduce(n, e) == IF e > 0 /\ n % 2 = 0 THEN Reduce(n \div 2, e - 1)
                ELSE [n |-> n, e |-> e]

\* n / 2^e in lowest terms
Norm(n, e) == CHOOSE r \in {Reduce(a, b) : a \in {n}, b \in {e}} : TRUE

Num(i) == [n |-> i, e |-> 0]
Zero == Num(0)
One == Num(1)
\* 2.5, the scattering rate of the V2 foliage
TwoAndHalf == [n |-> 5, e |-> 1]

MaxOf(a, b) == IF a >= b THEN a ELSE b
MinOf(a, b) == IF a <= b THEN a ELSE b

\* numerator of x over the denominator 2^e, for e >= x.e
Scaled(x, e) == x.n * 2 ^ (e - x.e)

Add(x, y) ==
  LET Sum(a, b) == LET e == MaxOf(a.e, b.e)
                   IN  Norm(Scaled(a, e) + Scaled(b, e), e)
  IN  CHOOSE r \in {Sum(a, b) : a \in {x}, b \in {y}} : TRUE
Sub(x, y) ==
  LET Diff(a, b) == LET e == MaxOf(a.e, b.e)
                    IN  Norm(Scaled(a, e) - Scaled(b, e), e)
  IN  CHOOSE r \in {Diff(a, b) : a \in {x}, b \in {y}} : TRUE
Mul(x, y) ==
  CHOOSE r \in {Norm(a.n * b.n, a.e + b.e) : a \in {x}, b \in {y}} : TRUE
Leq(x, y) ==
  \E a \in {x}, b \in {y} :
    LET e == MaxOf(a.e, b.e) IN Scaled(a, e) <= Scaled(b, e)
Less(x, y) ==
  \E a \in {x}, b \in {y} :
    LET e == MaxOf(a.e, b.e) IN Scaled(a, e) < Scaled(b, e)

---------------------------------------------------------------------------
(* Math.exp and the damp helper. *)

\* Math.exp(-x * ln 2) returns 0 from here on (binary64: 2^-1075 rounds to 0)
Underflow == 1075
\* the delta of a frame after a long pause: lambda * LongDelta >= Underflow
\* for every rate, and a whole number for the rate 2.5 as well
LongDelta == 512
\* delta before the first frame
NoFrame == -1

\* Math.exp(-x * ln 2) for an integer x
ExpNeg(x) == IF x.n >= Underflow THEN Zero
             ELSE IF x.n < 0 THEN Num(2 ^ (-x.n))
             ELSE [n |-> 1, e |-> x.n]

\* THREE.MathUtils.lerp(x, y, t) = (1 - t) * x + t * y
lerp(x, y, t) == Add(Mul(Sub(One, t), x), Mul(t, y))

\* damp with the complement forgotten: lerp(c, t, Math.exp(-l * d))
dampNoComplement(c, t, l, d) == lerp(c, t, ExpNeg(Mul(l, Num(d))))

\* damp by the unclamped linear factor l * d, the frame-rate dependent lerp
dampLinear(c, t, l, d) == lerp(c, t, Mul(l, Num(d)))

\* damp by a fixed factor per frame, whatever the delta
dampFixed(c, t, l, d) == lerp(c, t, IF d = 0 THEN Zero ELSE [n |-> 1, e |-> 1])

\* damp that steers to the value itself and so never moves
dampStuck(c, t, l, d) == lerp(c, c, Sub(One, ExpNeg(Mul(l, Num(d)))))

\* damp that moves a value that is already at rest on a frame of delta 0
dampNudge(c, t, l, d) ==
  IF d = 0 /\ c.e > 0 THEN t ELSE lerp(c, t, Sub(One, ExpNeg(Mul(l, Num(d)))))

\* damp(c, t, l, d) = THREE.MathUtils.lerp(c, t, 1 - Math.exp(-l * d))
damp(c, t, l, d) == lerp(c, t, Sub(One, ExpNeg(Mul(l, Num(d)))))

\* lerpVectors with the two endpoints taken in the other order
lerpVectorsSwapped(v1, v2, alpha) ==
  [c \in 1..3 |-> Add(Num(v2[c]), Mul(Sub(Num(v1[c]), Num(v2[c])), alpha))]

\* Vector3.lerpVectors(v1, v2, alpha): v1 + (v2 - v1) * alpha, per component
lerpVectors(v1, v2, alpha) ==
  [c \in 1..3 |-> Add(Num(v1[c]), Mul(Sub(Num(v2[c]), Num(v1[c])), alpha))]

\* GLSL mix(x, y, a) = x * (1 - a) + y * a, per component
glslMix(x, y, a) ==
  [c \in 1..3 |-> Add(Mul(Num(x[c]), Sub(One, a)), Mul(Num(y[c]), a))]

\* FoliageMaterial (V2): float cubicInOut(float t)
\*   t < 0.5 ? 4.0 * t * t * t : 1.0 - pow(-2.0 * t + 2.0, 3.0) / 2.0
cubicInOut(t) ==
  IF Less(t, [n |-> 1, e |-> 1])
  THEN Mul(Num(4), Mul(t, Mul(t, t)))
  ELSE LET w == Add(Mul(Num(-2), t), Num(2))
       IN  Sub(One, Mul(Mul(w, Mul(w, w)), [n |-> 1, e |-> 1]))

---------------------------------------------------------------------------
(* The animated groups. *)

Variants == {"V1", "V2"}

Groups == IF variant = "V1" THEN {"Foliage", "Ornaments", "PhotoItem"}
          ELSE {"Foliage", "Ornaments"}

\* the groups whose useFrame writes positions itself; the foliage is placed
\* by its vertex shader
CpuGroups == Groups \ {"Foliage"}

\* number of particles of a group (a PhotoItem is one frame)
CountWhen(g, mobile) == IF g = "PhotoItem" THEN 1
                        ELSE IF mobile THEN NMobile ELSE NParticles

\* const count = isMobile ? 35 : 75 (part_001), const count = 75 (index.tsx)
Count(g) == CountWhen(g, isMobile)

\* isTree ? 1 : 0
Target(tree) == IF tree THEN One ELSE Zero

\* the lambda each useFrame passes to damp
Lambda(g, tree) ==
  IF variant = "V1"
  THEN (IF g = "Foliage" THEN Num(3) ELSE Num(4))
  ELSE (IF g = "Foliage" THEN (IF tree THEN Num(4) ELSE TwoAndHalf)
        ELSE (IF tree THEN Num(6) ELSE Num(3)))

---------------------------------------------------------------------------
(* Mount: the endpoint sets, sampled once. *)

\* the points the samplers return, on a small integer lattice
PointTable == << <<1, 0, -1>>, <<0, 1, 1>>, <<-1, -1, 0>>, <<1, 1, 0>>,
                 <<0, -1, 1>> >>

\* the k-th point drawn from the random stream of a seed
LatticePoint(seed, k) == PointTable[((seed + k) % Len(PointTable)) + 1]

\* the k-th number Math.random() returns in the stream of a seed, as an
\* index of the table
RandomDraw(seed, k) == (seed + k) % Len(PointTable)

\* first draw of a group: the groups mount one after the other, and every
\* iteration of a group's loop draws three times
FirstDraw(g) == CASE g = "Foliage" -> 0
                  [] g = "Ornaments" -> 3 * Count("Foliage")
                  [] OTHER -> 3 * Count("Foliage") + 3 * Count("Ornaments")

\* s.y += 5, .add(new THREE.Vector3(0, 5, 0))
Lifted(s) == <<s[1], s[2] + 5, s[3]>>

\* what iteration i (from 0) of a group's loop creates for its particle.
\*   Foliage:   s = getRandomSpherePoint(..); s.y += 5;
\*              t = getRandomConePoint(..); rnd[i] = Math.random()
\*   Ornaments: { tree: getConeSurfacePoint(..), scatter:
\*              getRandomSpherePoint(..).add(0, 5, 0), scale: .. Math.random() }
\*   PhotoItem: treePos computed from the index i, scatterPos =
\*              getRandomSpherePoint(..).add(0, 5, 0)
Particle(g, seed, i) ==
  LET k == FirstDraw(g) + 3 * i
  IN  CASE g = "Foliage" ->
             [scatter |-> Lifted(LatticePoint(seed, k)),
              tree    |-> LatticePoint(seed, k + 1),
              rnd     |-> RandomDraw(seed, k + 2)]
        [] g = "Ornaments" ->
             [tree    |-> LatticePoint(seed, k),
              scatter |-> Lifted(LatticePoint(seed, k + 1)),
              rnd     |-> RandomDraw(seed, k + 2)]
        [] OTHER ->
             [tree    |-> LatticePoint(0, i),
              scatter |-> Lifted(LatticePoint(seed, k)),
              rnd     |-> i]

\* the offset of particle i in a position array: the i * 3 of the writes with
\* two floats per particle instead of three
OffsetTwo(i) == i * 2

\* sPos.set([s.x, s.y, s.z], i * 3), scatterPos[i * 3] = s.x, ...
Offset(i) == i * 3

\* new Float32Array(n * 3), zero filled, after iterations 0 .. n-1 have each
\* written their three floats trip[i] from Offset(i) on
FilledArray(n, trip) ==
  [k \in 0..(3 * n - 1) |->
     LET writers == {i \in 0..(n - 1) : Offset(i) <= k /\ k <= Offset(i) + 2}
     IN  IF writers = {} THEN 0
         ELSE LET i == CHOOSE j \in writers : \A h \in writers : h <= j
              IN  trip[i][k - Offset(i) + 1]]

\* <bufferAttribute itemSize={3} array={..} />: the three floats of vertex i
BufferAttribute(array, i) == <<array[3 * i], array[3 * i + 1], array[3 * i + 2]>>

\* the endpoint sets and the auxiliary random set of a group of n particles.
\* The foliage keeps them in flat arrays its shader reads by attribute; the
\* other groups keep one object per particle.
GroupData(g, seed, n) ==
  IF g = "Foliage"
  THEN LET sPos == FilledArray(n, [i \in 0..(n - 1) |-> Particle(g, seed, i).scatter])
           tPos == FilledArray(n, [i \in 0..(n - 1) |-> Particle(g, seed, i).tree])
           rnd == [i \in 0..(n - 1) |-> Particle(g, seed, i).rnd]
       IN  [scatter |-> [i \in 1..n |-> BufferAttribute(sPos, i - 1)],
            tree    |-> [i \in 1..n |-> BufferAttribute(tPos, i - 1)],
            rnd     |-> [i \in 1..n |-> rnd[i - 1]]]
  ELSE [scatter |-> [i \in 1..n |-> Particle(g, seed, i - 1).scatter],
        tree    |-> [i \in 1..n |-> Particle(g, seed, i - 1).tree],
        rnd     |-> [i \in 1..n |-> Particle(g, seed, i - 1).rnd]]

\* the data of every group, created when the scene mounts
MountData(seed) == [g \in Groups |-> GroupData(g, seed, Count(g))]

\* every blend value created at 1, the assembled end
InitialMixOne == One

\* useRef(0), uMix: 0
InitialMix == Zero

\* Object3D.position and the instance matrices before the first frame
Origin == [c \in 1..3 |-> Zero]

\* no sampler call and no photo item under observation
NoSampler == [fn |-> "none"]
NoPhoto == [mounted |-> FALSE]
NoSnow == [mounted |-> FALSE]
NoGallery == [mounted |-> FALSE]
NoMusic == [mounted |-> FALSE]
\* no click yet, no update waiting
NoClicks == [clicks |-> 0, queue |-> <<>>]
\* useState<string | null>(null), null written 0
NoSelection == 0

Init ==
  /\ variant \in Variants
  /\ isMobile = FALSE
  /\ isTree = TRUE
  /\ sceneIsTree = TRUE
  /\ \E seed \in 1..NSeeds : data = MountData(seed)
  /\ mixVal = [g \in Groups |-> InitialMix]
  /\ position = [g \in CpuGroups |-> [i \in 1..Count(g) |-> Origin]]
  /\ delta = NoFrame
  /\ last = "mount"
  /\ runStart = [g \in Groups |-> InitialMix]
  /\ runTime = 0
  /\ facing = FALSE
  /\ sampler = NoSampler
  /\ photo = NoPhoto
  /\ snow = NoSnow
  /\ gallery = NoGallery
  /\ app = NoClicks
  /\ selected = NoSelection
  /\ music = NoMusic

---------------------------------------------------------------------------
(* The operations. *)

\* a toggle that also snaps every blend value onto the new target
ClickSnap ==
  /\ isTree' = ~isTree
  /\ mixVal' = [g \in Groups |-> Target(~isTree)]
  /\ last' = "click"
  /\ UNCHANGED <<variant, sceneIsTree, data, position, delta, runStart, runTime,
                 facing>>
  /\ UNCHANGED aside

\* onClick={() => setIsTree(!isTree)} (V1), setIsTree((s) => !s) (V2): the
\* click and the re-render of App that follows it
Click ==
  /\ isTree' = ~isTree
  /\ last' = "click"
  /\ UNCHANGED <<variant, sceneIsTree, data, mixVal, position, delta,
                 runStart, runTime, facing>>
  /\ UNCHANGED aside

\* <Scene isTree={isTree} />: the canvas commits the new prop, and the
\* useFrame callbacks of the groups close over it from now on
Commit ==
  /\ sceneIsTree # isTree
  /\ sceneIsTree' = isTree
  /\ last' = "commit"
  /\ runStart' = mixVal
  /\ runTime' = 0
  /\ UNCHANGED <<variant, isTree, data, mixVal, position, delta, facing>>
  /\ UNCHANGED aside

\* the deltas a frame may have
Deltas == (0..MaxDelta) \cup {LongDelta}

\* lambda * d is an integer and the value it leads to fits MaxExp places
Representable(g, d) ==
  /\ Mul(Lambda(g, sceneIsTree), Num(d)).e = 0
  /\ LET x == Mul(Lambda(g, sceneIsTree), Num(runTime + d))
     IN  x.n >= Underflow \/ runStart[g].e + x.n <= MaxExp

\* a frame that takes its rate from the intent App holds and its target from
\* the intent the scene has committed
UseFrameMixFreshRate(g, d) ==
  damp(mixVal[g], Target(sceneIsTree), Lambda(g, isTree), d)

\* a frame that steers to the assembled end whatever the intent
UseFrameMixUp(g, d) == damp(mixVal[g], One, Lambda(g, sceneIsTree), d)

\* useFrame((state, delta) => { mixVal.current =
\*   damp(mixVal.current, isTree ? 1 : 0, lambda, delta); ... })
UseFrameMix(g, d) ==
  damp(mixVal[g], Target(sceneIsTree), Lambda(g, sceneIsTree), d)

\* a frame that places the instances by the blend value of the frame before
UseFramePositionStale(g, i, m) ==
  lerpVectors(data[g].scatter[i], data[g].tree[i], mixVal[g])

\* data.forEach((d, i) => { dummy.position.lerpVectors(d.scatter, d.tree,
\*   mixVal.current); ... setMatrixAt(i, dummy.matrix) })
UseFramePosition(g, i, m) ==
  lerpVectors(data[g].scatter[i], data[g].tree[i], m)

\* a photo frame that faces the axis whenever its blend value exceeds 0.8
UseFrameFacingAnyIntent(tree, m) == 5 * m.n > 4 * 2 ^ m.e

\* if (isTree && mix.current > 0.8) { group.current.lookAt(0, .., 0); .. }
\* else { group.current.rotation.y = .. }
UseFrameFacing(tree, m) == tree /\ 5 * m.n > 4 * 2 ^ m.e

\* one frame: every useFrame callback runs with the same delta
Frame(d) ==
  /\ \A g \in Groups : Representable(g, d)
  /\ mixVal' = [g \in Groups |-> UseFrameMix(g, d)]
  /\ position' = [g \in CpuGroups |->
                   [i \in DOMAIN data[g].scatter |->
                      UseFramePosition(g, i, mixVal'[g])]]
  /\ delta' = d
  /\ last' = "frame"
  /\ runTime' = MinOf(runTime + d, LongDelta)
  /\ facing' = IF "PhotoItem" \in Groups
               THEN UseFrameFacing(sceneIsTree, mixVal'["PhotoItem"])
               ELSE facing
  /\ UNCHANGED <<variant, isTree, sceneIsTree, data, runStart>>
  /\ UNCHANGED aside

Next ==
  \/ Click
  \/ Commit
  \/ \E d \in Deltas : Frame(d)

Spec == Init /\ [][Next]_vars

---------------------------------------------------------------------------
(* What the renderer shows. *)

\* vertex shader: vec3 pos = mix(aScatterPos, aTreePos, uMix)  (V1)
\*                float t = cubicInOut(uMix); pos = mix(.., .., t)  (V2)
VertexPosition(i) ==
  glslMix(data["Foliage"].scatter[i], data["Foliage"].tree[i],
          IF variant = "V2" THEN cubicInOut(mixVal["Foliage"])
          ELSE mixVal["Foliage"])

---------------------------------------------------------------------------
(* Shorthands of the claims. *)

\* the target the frames steer to
SceneTarget == Target(sceneIsTree)

\* a group's value lies strictly between the two endpoints
MidFlight(g) == Less(Zero, mixVal[g]) /\ Less(mixVal[g], One)

\* a frame has run
Ticked == delta # NoFrame

---------------------------------------------------------------------------
(* C1: a frame with delta d replaces every group's blend value v by        *)
(* target + (v - target) * exp(-rate * d); the code's lerp form            *)
(* (1 - k) * v + k * target with k = 1 - exp(-rate * d) is that function.  *)
C1_DampIsExponentialDecay ==
  [][last' = "frame" =>
       \A g \in Groups :
         mixVal'[g] =
           Add(SceneTarget,
               Mul(Sub(mixVal[g], SceneTarget),
                   ExpNeg(Mul(Lambda(g, sceneIsTree), Num(delta')))))]_vars

\* a frame of positive delta has just moved a value that is in mid flight
C1_Witness ==
  /\ last = "frame" /\ delta = 1 /\ ~sceneIsTree
  /\ \E g \in Groups : MidFlight(g) /\ runStart[g] # mixVal[g]

(* C2: every blend value stays in [0, 1], and no frame carries a value     *)
(* past its target: below or on the target before, below or on it after,   *)
(* and the same from above.                                                *)
C2_BoundedNoOvershoot ==
  /\ [](\A g \in Groups : Leq(Zero, mixVal[g]) /\ Leq(mixVal[g], One))
  /\ [][last' = "frame" =>
          \A g \in Groups :
            /\ Leq(mixVal[g], SceneTarget) => Leq(mixVal'[g], SceneTarget)
            /\ Leq(SceneTarget, mixVal[g]) => Leq(SceneTarget, mixVal'[g])]_vars

\* after toggles in mid flight a frame has moved a value toward 0
C2_Witness ==
  /\ last = "frame" /\ delta = MaxDelta /\ ~sceneIsTree
  /\ \E g \in Groups : MidFlight(g) /\ Less(mixVal[g], runStart[g])

(* C3: with target and rate fixed, the frames since the target last        *)
(* changed leave the value that one frame of their summed deltas would     *)
(* leave, whatever the value they started from.                            *)
C3_FrameRateIndependent ==
  \A g \in Groups :
    mixVal[g] = damp(runStart[g], SceneTarget, Lambda(g, sceneIsTree), runTime)

\* three frames of positive delta since a retarget in mid flight
C3_Witness ==
  /\ last = "frame" /\ delta = 1 /\ runTime = MaxDelta + 2
  /\ \E g \in Groups : Less(Zero, runStart[g]) /\ Less(runStart[g], One)

(* C4: a frame of delta 0 leaves every blend value as it was.              *)
C4_ZeroDeltaNoOp ==
  [][(last' = "frame" /\ delta' = 0) => mixVal' = mixVal]_vars

\* a frame of delta 0 has run on values in mid flight, off their target
C4_Witness ==
  /\ last = "frame" /\ delta = 0
  /\ \A g \in Groups : MidFlight(g)

---------------------------------------------------------------------------
(* The render loop: requestAnimationFrame keeps calling the useFrame       *)
(* callbacks, and the clock's delta between two calls is positive.         *)
PositiveFrame == \E d \in Deltas \ {0} : Frame(d)

FairSpec == Spec /\ WF_vars(PositiveFrame)

\* every blend value is within 2^-k of the end b stands for
Near(b, k) ==
  \A g \in Groups :
    LET dist == IF b THEN Sub(One, mixVal[g]) ELSE mixVal[g]
    IN  Leq(dist, [n |-> 1, e |-> k])

\* the epsilons 2^-k of the convergence claim
EpsilonExps == {1, MaxExp \div 2, MaxExp}

(* C5: when the target stays fixed from some point on and frames of        *)
(* positive delta keep coming, then for every epsilon every blend value is *)
(* eventually within epsilon of the target and stays there, however the    *)
(* elapsed time is cut into frames.                                        *)
C5_Convergence ==
  \A k \in EpsilonExps :
    /\ <>[]sceneIsTree => <>[]Near(TRUE, k)
    /\ <>[](~sceneIsTree) => <>[]Near(FALSE, k)

\* frames since a retarget in mid flight have brought a value within the
\* smallest epsilon of 0 without it being 0
C5_Witness ==
  /\ last = "frame" /\ ~sceneIsTree /\ runTime > 0
  /\ Near(FALSE, MaxExp \div 2)
  /\ \E g \in Groups : Less(Zero, mixVal[g]) /\ Less(Zero, runStart[g])

(* C6: a toggle changes the intent and nothing else: blend values,         *)
(* endpoint sets and interpolated positions are those of before, and stay  *)
(* so when the scene takes the new intent; a blend value changes only in a *)
(* frame, which moves it by damp and never sets it to 0 or 1 outright.     *)
C6_ToggleOnlyRetargets ==
  [][/\ last' \in {"click", "commit"} =>
          mixVal' = mixVal /\ data' = data /\ position' = position
     /\ last' = "click" => isTree' = ~isTree /\ sceneIsTree' = sceneIsTree
     /\ \A g \in Groups :
          mixVal'[g] # mixVal[g] =>
            /\ last' = "frame"
            /\ mixVal'[g] = damp(mixVal[g], SceneTarget,
                                 Lambda(g, sceneIsTree), delta')]_vars

\* a toggle has just happened in mid flight and the scene has not taken it
C6_Witness ==
  /\ last = "click" /\ isTree # sceneIsTree
  /\ \A g \in Groups : MidFlight(g)

(* C7 as stated: before the first frame every blend value equals the       *)
(* initial target, 1.                                                      *)
C7_CreatedAtTarget ==
  ~Ticked => \A g \in Groups : mixVal[g] = Target(isTree) /\ mixVal[g] = One

(* C7 amended: the application starts with intent assembled (target 1),    *)
(* and every blend value is created at 0, the scattered end, where it      *)
(* stays until the first frame, toggles included.                          *)
C7_CreatedScattered ==
  /\ last = "mount" => isTree /\ sceneIsTree /\ SceneTarget = One
  /\ ~Ticked => \A g \in Groups : mixVal[g] = Zero

\* a toggle has happened and has been taken before any frame has run
C7_Witness ==
  /\ ~Ticked /\ last = "commit" /\ ~sceneIsTree
  /\ \A g \in Groups : mixVal[g] = Zero

---------------------------------------------------------------------------
(* What is drawn: the vertex shader's position for the foliage, the        *)
(* instance positions written by the last frame for the other groups.      *)
Rendered(g, i) == IF g = "Foliage" THEN VertexPosition(i) ELSE position[g][i]

\* an endpoint as a vector of numbers
Vec(v) == [c \in 1..3 |-> Num(v[c])]

\* scatter + f * (tree - scatter)
Linear(g, i, f) ==
  [c \in 1..3 |->
     Add(Num(data[g].scatter[i][c]),
         Mul(f, Sub(Num(data[g].tree[i][c]), Num(data[g].scatter[i][c]))))]

\* largest exponent of a blend value whose cube is computed
CubeExp == 8

\* the shader's easing of g's blend value is within the computed range
CubeFits(g) ==
  (variant = "V2" /\ g = "Foliage") => mixVal[g].e <= CubeExp

\* the factor a group's positions are interpolated by
Factor(g) ==
  IF variant = "V2" /\ g = "Foliage" THEN cubicInOut(mixVal[g]) ELSE mixVal[g]

(* C8: once a frame has run, a particle of a group whose blend value is    *)
(* exactly 0 is drawn at its scatter point and one whose blend value is    *)
(* exactly 1 at its tree point, for every index of every group.            *)
C8_EndpointCorrect ==
  Ticked =>
    \A g \in Groups : \A i \in 1..Count(g) :
      /\ mixVal[g] = Zero => Rendered(g, i) = Vec(data[g].scatter[i])
      /\ mixVal[g] = One => Rendered(g, i) = Vec(data[g].tree[i])

\* after a retarget in mid flight a frame has brought every value to exactly 1
C8_Witness ==
  /\ last = "frame" /\ sceneIsTree
  /\ \A g \in Groups : mixVal[g] = One /\ Less(Zero, runStart[g])

(* C9 as stated: in every group of every variant the base position is      *)
(* scatter + value * (tree - scatter), the blend value itself being the    *)
(* factor.                                                                 *)
C9_LinearInValue ==
  Ticked =>
    \A g \in Groups : \A i \in 1..Count(g) :
      CubeFits(g) => Rendered(g, i) = Linear(g, i, mixVal[g])

(* C9 amended: the base position is scatter + f * (tree - scatter), where  *)
(* f is the blend value itself in every group but the foliage of V2, whose *)
(* shader takes f = cubicInOut(value); the two agree at 0, 1/2 and 1 only. *)
C9_LinearInFactor ==
  Ticked =>
    \A g \in Groups : \A i \in 1..Count(g) :
      CubeFits(g) =>
        /\ Rendered(g, i) = Linear(g, i, Factor(g))
        /\ Factor(g) = mixVal[g] <=>
             \/ ~(variant = "V2" /\ g = "Foliage")
             \/ mixVal[g] \in {Zero, [n |-> 1, e |-> 1], One}

\* the V2 foliage is drawn in mid flight, off the straight blend
C9_Witness ==
  /\ Ticked /\ variant = "V2" /\ MidFlight("Foliage") /\ CubeFits("Foliage")
  /\ \E i \in 1..Count("Foliage") :
       Rendered("Foliage", i) # Linear("Foliage", i, mixVal["Foliage"])
  /\ \E g \in CpuGroups : MidFlight(g)

---------------------------------------------------------------------------
\* the scene has been retargeted to 0 while g's value was in mid flight
RetargetedDown(g) ==
  ~sceneIsTree /\ Less(Zero, runStart[g]) /\ Less(runStart[g], One)

(* C10 as stated: a flip of the intent from 1 to 0 in mid flight moves no  *)
(* blend value and no position, the frames after it start from the value   *)
(* before the flip, and each of them with a positive delta strictly        *)
(* decreases the value.                                                    *)
C10_StrictDecrease ==
  [][/\ last' \in {"click", "commit"} =>
          mixVal' = mixVal /\ position' = position
     /\ last' = "commit" => runStart' = mixVal
     /\ \A g \in Groups :
          (last' = "frame" /\ delta' > 0 /\ RetargetedDown(g)) =>
             Less(mixVal'[g], mixVal[g])]_vars

(* C10 amended: a flip of the intent from 1 to 0 in mid flight moves no    *)
(* blend value and no position, the frames after it start from the value   *)
(* before the flip, and each of them with a positive delta strictly        *)
(* decreases a value that is above 0 without taking it below 0; a value    *)
(* that has reached 0, as it does once Math.exp returns 0, stays 0.        *)
C10_DecreaseDownToZero ==
  [][/\ last' \in {"click", "commit"} =>
          mixVal' = mixVal /\ position' = position
     /\ last' = "commit" => runStart' = mixVal
     /\ \A g \in Groups :
          (last' = "frame" /\ delta' > 0 /\ RetargetedDown(g)) =>
             /\ Leq(Zero, mixVal'[g])
             /\ Leq(mixVal[g], runStart[g])
             /\ IF mixVal[g] = Zero THEN mixVal'[g] = Zero
                ELSE Less(mixVal'[g], mixVal[g])]_vars

\* a second frame after the flip has lowered a value again, short of 0
C10_Witness ==
  /\ last = "frame" /\ delta > 0 /\ runTime > delta
  /\ \E g \in Groups :
       RetargetedDown(g) /\ Less(mixVal[g], runStart[g]) /\ Less(Zero, mixVal[g])

---------------------------------------------------------------------------
(* C11: the scatter set, the tree set and the auxiliary random set of      *)
(* every group have the group's count of entries, and entry i of each is   *)
(* what the iteration that created particle i made: the three belong to    *)
(* the same particle.                                                      *)
C11_SetsAligned ==
  /\ \A g \in Groups :
       /\ DOMAIN data[g].scatter = 1..Count(g)
       /\ DOMAIN data[g].tree = 1..Count(g)
       /\ DOMAIN data[g].rnd = 1..Count(g)
  /\ \E seed \in 1..NSeeds :
       \A g \in Groups : \A i \in 1..Count(g) :
         /\ data[g].scatter[i] = Particle(g, seed, i - 1).scatter
         /\ data[g].tree[i] = Particle(g, seed, i - 1).tree
         /\ data[g].rnd[i] = Particle(g, seed, i - 1).rnd

\* the scene has mounted groups of several particles that differ
C11_Witness ==
  /\ last = "mount"
  /\ Count("Foliage") > 1
  /\ data["Foliage"].scatter[1] # data["Foliage"].scatter[2]
  /\ data["Foliage"].tree[1] # data["Foliage"].tree[2]
  /\ data["Ornaments"].rnd[1] # data["Ornaments"].rnd[2]

---------------------------------------------------------------------------
(* The responsive program, src/unnamed/part_001: the first program of      *)
(* index.tsx with counts that follow the width of the viewport.            *)

ResponsiveInit ==
  /\ variant = "V1"
  /\ isMobile \in BOOLEAN
  /\ isTree = TRUE
  /\ sceneIsTree = TRUE
  /\ \E seed \in 1..NSeeds : data = MountData(seed)
  /\ mixVal = [g \in Groups |-> InitialMix]
  /\ position = [g \in CpuGroups |-> [i \in 1..Count(g) |-> Origin]]
  /\ delta = NoFrame
  /\ last = "mount"
  /\ runStart = [g \in Groups |-> InitialMix]
  /\ runTime = 0
  /\ facing = FALSE
  /\ sampler = NoSampler
  /\ photo = NoPhoto
  /\ snow = NoSnow
  /\ gallery = NoGallery
  /\ app = NoClicks
  /\ selected = NoSelection
  /\ music = NoMusic

\* the viewport's width crosses 768: Scene renders again with the other
\* isMobile.  Foliage keeps the arrays of its useState; Ornaments computes its
\* useMemo(.., [count]) again, with fresh draws, and its instancedMesh is
\* built again for the new count; the refs holding blend values stay.
Resize ==
  /\ isMobile' = ~isMobile
  /\ \E seed \in 1..NSeeds :
       data' = [data EXCEPT !["Ornaments"] =
                  GroupData("Ornaments", seed, CountWhen("Ornaments", ~isMobile))]
  /\ position' = [position EXCEPT !["Ornaments"] =
                    [i \in 1..CountWhen("Ornaments", ~isMobile) |-> Origin]]
  /\ last' = "resize"
  /\ UNCHANGED <<variant, isTree, sceneIsTree, mixVal, delta, runStart, runTime,
                 facing, sampler, photo, page>>

\* the blend is explored frame by frame in Spec; here a frame is an ordinary
\* one or one after a long pause
ResponsiveDeltas == {MaxDelta, LongDelta}

ResponsiveNext ==
  \/ Click
  \/ Commit
  \/ \E d \in ResponsiveDeltas : Frame(d)
  \/ Resize

ResponsiveSpec == ResponsiveInit /\ [][ResponsiveNext]_vars

(* C12: once the scene has mounted, no step changes the scatter set or the *)
(* tree set of a group: not a frame, a toggle, a re-render or a change of  *)
(* the viewport's size.                                                    *)
C12_EndpointsImmutable ==
  [][\A g \in Groups :
       /\ data'[g].scatter = data[g].scatter
       /\ data'[g].tree = data[g].tree]_vars

---------------------------------------------------------------------------
(* The samplers.  Their numbers are exact rationals [n |-> numerator,      *)
(* d |-> denominator > 0] in lowest terms.  Math.cbrt and Math.sqrt are    *)
(* computed to RootDen-ths, rounded down, which is exact for the draws     *)
(* whose root is such a fraction; an angle is drawn from the angles whose  *)
(* cosine and sine are rational.                                           *)

RECURSIVE GCD(_, _)
GCD(a, b) == IF b = 0 THEN a ELSE GCD(b, a % b)

Abs(i) == IF i < 0 THEN -i ELSE i

\* n / d in lowest terms, for d > 0
Q(n, d) == LET g == GCD(Abs(n), d) IN [n |-> n \div g, d |-> d \div g]

QAdd(x, y) == LET l == (x.d \div GCD(x.d, y.d)) * y.d
              IN  Q(x.n * (l \div x.d) + y.n * (l \div y.d), l)
QNeg(x) == [n |-> -x.n, d |-> x.d]
QSub(x, y) == QAdd(x, QNeg(y))
QMul(x, y) == LET a == Q(x.n, y.d)
                  b == Q(y.n, x.d)
              IN  [n |-> a.n * b.n, d |-> a.d * b.d]
\* x / y for y > 0
QDiv(x, y) == QMul(x, Q(y.d, y.n))
QLeq(x, y) == x.n * y.d <= y.n * x.d
QLess(x, y) == x.n * y.d < y.n * x.d
QOne == Q(1, 1)
QZero == Q(0, 1)
QHalf == Q(1, 2)

\* the resolution of the roots: a multiple of 8 and of 5
RootDen == 8 * 5

\* Math.cbrt(x) for 0 <= x <= 1
Cbrt(x) ==
  LET c == CHOOSE c \in 0..RootDen :
             /\ c * c * c * x.d <= x.n * RootDen * RootDen * RootDen
             /\ (c + 1) * (c + 1) * (c + 1) * x.d > x.n * RootDen * RootDen * RootDen
  IN  Q(c, RootDen)

\* Math.sqrt(x) for 0 <= x <= 1
Sqrt(x) ==
  LET c == CHOOSE c \in 0..RootDen :
             /\ c * c * x.d <= x.n * RootDen * RootDen
             /\ (c + 1) * (c + 1) * x.d > x.n * RootDen * RootDen
  IN  Q(c, RootDen)

\* the angles Math.random() * Math.PI * 2 is drawn from, each by its
\* <<Math.cos, Math.sin>>, in increasing order from 0
AngleTable ==
  << <<Q(1, 1), Q(0, 1)>>,   <<Q(4, 5), Q(3, 5)>>,   <<Q(3, 5), Q(4, 5)>>,
     <<Q(0, 1), Q(1, 1)>>,   <<Q(-3, 5), Q(4, 5)>>,  <<Q(-4, 5), Q(3, 5)>>,
     <<Q(-1, 1), Q(0, 1)>>,  <<Q(-3, 5), Q(-4, 5)>>, <<Q(0, 1), Q(-1, 1)>>,
     <<Q(4, 5), Q(-3, 5)>> >>
Angles == 1..Len(AngleTable)
Cos(a) == AngleTable[a][1]
Sin(a) == AngleTable[a][2]

\* phi = Math.acos(c), kept by Math.cos(phi) = c and
\* Math.sin(phi) = sqrt(1 - c * c) >= 0
Acos(c) == [cos |-> c, sin |-> Sqrt(QSub(QOne, QMul(c, c)))]

\* the draws of Math.random(): those with an exact cube root, those with an
\* exact square root, those whose 2 * v - 1 has a rational sine, and a
\* uniform grid
CubeDraws == {Q(k * k * k, 64) : k \in 0..3}
SquareDraws == {Q(k * k, 16) : k \in 0..3}
PolarDraws == {Q(0, 1), Q(1, 10), Q(1, 5), Q(1, 2), Q(4, 5), Q(9, 10)}
GridDraws == {Q(k, 16) : k \in 0..15}

\* the arguments the samplers are called with
SphereRadii == {Q(1, 1), Q(26, 1)}
ConeHeights == {Q(2, 1), Q(13, 1)}
ConeRadii == {Q(1, 1), Q(23, 5)}

\* the radial coordinate measured outward from the sphere instead of inward
RadialShell(u, r) == QMul(QAdd(Cbrt(u), QOne), r)

\* the radial coordinate drawn linearly: rad = Math.random() * r
RadialLinear(u, r) == QMul(u, r)

\* const rad = Math.cbrt(Math.random()) * r
Radial(u, r) == QMul(Cbrt(u), r)

\* getRandomSpherePoint(r) with theta drawn as angle a, v and the radial
\* draw u:  phi = Math.acos(2 * v - 1);
\*   new THREE.Vector3(rad * sin(phi) * cos(theta),
\*                     rad * sin(phi) * sin(theta), rad * cos(phi))
getRandomSpherePoint(r, a, v, u) ==
  LET phi == Acos(QSub(QMul(Q(2, 1), v), QOne))
      rad == Radial(u, r)
  IN  << QMul(QMul(rad, phi.sin), Cos(a)),
         QMul(QMul(rad, phi.sin), Sin(a)),
         QMul(rad, phi.cos) >>

\* the height drawn linearly: hRaw = 1 - Math.random()
HeightRawLinear(u) == QSub(QOne, u)

\* const hRaw = 1 - Math.cbrt(Math.random())
HeightRaw(u) == QSub(QOne, Cbrt(u))

\* a cone that does not taper: rad = r
RadiusAtBase(r, y, h) == r

\* const rad = r * (1 - y / h)
RadiusAt(r, y, h) == QMul(r, QSub(QOne, QDiv(y, h)))

\* getRandomConePoint(h, r) with the height draw u, theta drawn as angle a
\* and the disk draw w:  y = hRaw * h;  dist = Math.sqrt(Math.random()) * rad;
\*   new THREE.Vector3(dist * cos(theta), y - h / 2, dist * sin(theta))
getRandomConePoint(h, r, u, a, w) ==
  LET y == QMul(HeightRaw(u), h)
      rad == RadiusAt(r, y, h)
      dist == QMul(Sqrt(w), rad)
  IN  << QMul(dist, Cos(a)), QSub(y, QDiv(h, Q(2, 1))), QMul(dist, Sin(a)) >>

\* a surface sampler that fills the disk at its height as the solid one does
getConeSurfacePointSolid(h, r, u, a) ==
  LET y == QMul(u, h)
      rad == QMul(Sqrt(u), RadiusAt(r, y, h))
  IN  << QMul(rad, Cos(a)), QSub(y, QDiv(h, Q(2, 1))), QMul(rad, Sin(a)) >>

\* getConeSurfacePoint(h, r) with the height draw u and theta drawn as angle
\* a:  y = Math.random() * h;  rad = r * (1 - y / h);
\*   new THREE.Vector3(rad * cos(theta), y - h / 2, rad * sin(theta))
getConeSurfacePoint(h, r, u, a) ==
  LET y == QMul(u, h)
      rad == RadiusAt(r, y, h)
  IN  << QMul(rad, Cos(a)), QSub(y, QDiv(h, Q(2, 1))), QMul(rad, Sin(a)) >>

\* the variables of the blend
blend == <<variant, isTree, sceneIsTree, data, mixVal, position, delta, last,
           runStart, runTime, facing>>

SamplerInit == Init /\ variant = "V1" /\ data = MountData(1)

\* one call of each sampler, with its arguments and draws
SphereCall ==
  /\ sampler.fn = "none"
  /\ \E r \in SphereRadii, a \in Angles, v \in PolarDraws, u \in CubeDraws :
       sampler' = [fn |-> "sphere", h |-> QZero, r |-> r, u |-> u, a |-> a,
                   v |-> v, w |-> QZero,
                   point |-> getRandomSpherePoint(r, a, v, u)]
  /\ UNCHANGED <<blend, isMobile, photo, page>>

ConeCall ==
  /\ sampler.fn = "none"
  /\ \E h \in ConeHeights, r \in ConeRadii, u \in CubeDraws, a \in Angles,
        w \in SquareDraws :
       sampler' = [fn |-> "cone", h |-> h, r |-> r, u |-> u, a |-> a,
                   v |-> QZero, w |-> w,
                   point |-> getRandomConePoint(h, r, u, a, w)]
  /\ UNCHANGED <<blend, isMobile, photo, page>>

SurfaceCall ==
  /\ sampler.fn = "none"
  /\ \E h \in ConeHeights, r \in ConeRadii, u \in GridDraws, a \in Angles :
       sampler' = [fn |-> "surface", h |-> h, r |-> r, u |-> u, a |-> a,
                   v |-> QZero, w |-> QZero,
                   point |-> getConeSurfacePoint(h, r, u, a)]
  /\ UNCHANGED <<blend, isMobile, photo, page>>

\* the caller takes the point
SamplerReturn ==
  /\ sampler.fn # "none"
  /\ sampler' = NoSampler
  /\ UNCHANGED <<blend, isMobile, photo, page>>

SamplerNext ==
  \/ SphereCall
  \/ ConeCall
  \/ SurfaceCall
  \/ SamplerReturn

SamplerSpec == SamplerInit /\ [][SamplerNext]_vars

\* the square of a point's distance from the origin, and from the y axis
NormSq(p) == QAdd(QAdd(QMul(p[1], p[1]), QMul(p[2], p[2])), QMul(p[3], p[3]))
AxisDistSq(p) == QAdd(QMul(p[1], p[1]), QMul(p[3], p[3]))

(* C13: every point getRandomSpherePoint(r) returns is in the closed ball  *)
(* of radius r about the origin.                                           *)
C13_SphereContained ==
  sampler.fn = "sphere" =>
    QLeq(NormSq(sampler.point), QMul(sampler.r, sampler.r))

\* a point of the large sphere off every axis, short of the surface
C13_Witness ==
  /\ sampler.fn = "sphere" /\ sampler.r = Q(26, 1)
  /\ \A c \in 1..3 : sampler.point[c].n # 0
  /\ QLess(NormSq(sampler.point), QMul(sampler.r, sampler.r))

(* C14: the distance rho of the returned point from the origin satisfies   *)
(* rho^3 = r^3 * u for the radial draw u: (rho / r) is the cube root of u, *)
(* not u itself.                                                           *)
C14_CubeRootRadial ==
  sampler.fn = "sphere" =>
    LET x == QDiv(NormSq(sampler.point), QMul(sampler.r, sampler.r))
        q == Sqrt(x)
    IN  /\ QMul(q, q) = x
        /\ QMul(q, QMul(q, q)) = sampler.u

\* a point whose radial draw is neither 0 nor its own cube root
C14_Witness ==
  /\ sampler.fn = "sphere" /\ sampler.u = Q(27, 64)
  /\ NormSq(sampler.point) = QMul(Q(9, 16), QMul(sampler.r, sampler.r))
  /\ sampler.point[1].n # 0

\* the height of a cone point above the base: the y the sampler drew
HeightOf(p, h) == QAdd(p[2], QDiv(h, Q(2, 1)))

\* the square of r * (1 - y / h)
TaperSq(r, y, h) ==
  LET t == QMul(r, QSub(QOne, QDiv(y, h))) IN QMul(t, t)

(* C15: every point getRandomConePoint(h, r) returns is in the closed      *)
(* solid cone: its sampled height y is in [0, h] and its distance from the *)
(* axis is at most r * (1 - y / h).                                        *)
C15_ConeContained ==
  sampler.fn = "cone" =>
    LET y == HeightOf(sampler.point, sampler.h)
    IN  /\ QLeq(QZero, y) /\ QLeq(y, sampler.h)
        /\ QLeq(AxisDistSq(sampler.point), TaperSq(sampler.r, y, sampler.h))

\* a point off the axis, strictly inside the cone and between base and apex
C15_Witness ==
  /\ sampler.fn = "cone"
  /\ sampler.point[1].n # 0 /\ sampler.point[3].n # 0
  /\ LET y == HeightOf(sampler.point, sampler.h)
     IN  /\ QLess(QZero, y) /\ QLess(y, sampler.h)
         /\ QLess(AxisDistSq(sampler.point),
                  TaperSq(sampler.r, y, sampler.h))

(* C16: every point getConeSurfacePoint(H, R) returns is on the lateral    *)
(* surface: its sampled height y is in [0, H) and its distance from the    *)
(* axis equals R * (1 - y / H).                                            *)
C16_OnConeSurface ==
  sampler.fn = "surface" =>
    LET y == HeightOf(sampler.point, sampler.h)
    IN  /\ QLeq(QZero, y) /\ QLess(y, sampler.h)
        /\ AxisDistSq(sampler.point) = TaperSq(sampler.r, y, sampler.h)

\* a surface point above the base and off both horizontal axes
C16_Witness ==
  /\ sampler.fn = "surface" /\ sampler.r = Q(23, 5)
  /\ QLess(QZero, HeightOf(sampler.point, sampler.h))
  /\ sampler.point[1].n # 0 /\ sampler.point[3].n # 0

\* the draws of the uniform grid whose cone point is above, or not above,
\* half the height
UpperDraws(h, r) ==
  {u \in GridDraws :
     QLess(QDiv(h, Q(2, 1)),
           HeightOf(getRandomConePoint(h, r, u, 1, QZero), h))}
LowerDraws(h, r) == GridDraws \ UpperDraws(h, r)

(* C17 as stated: over a uniform grid of height draws, more points of      *)
(* getRandomConePoint(H, R) have y > H / 2 than y <= H / 2.                *)
C17_MoreAboveHalf ==
  sampler.fn = "cone" =>
    Cardinality(UpperDraws(sampler.h, sampler.r)) >
      Cardinality(LowerDraws(sampler.h, sampler.r))

(* C17 amended: y = H * (1 - cbrt(u)) is measured from the base (the       *)
(* radius at y is R * (1 - y / H)), and y > H / 2 exactly when u < 1 / 8:  *)
(* over a uniform grid of u one draw in eight is above half the height and *)
(* seven in eight are at y <= H / 2, the half next to the base.            *)
C17_MoreBelowHalf ==
  sampler.fn = "cone" =>
    /\ UpperDraws(sampler.h, sampler.r) =
         {u \in GridDraws : QLess(u, Q(1, 8))}
    /\ Cardinality(LowerDraws(sampler.h, sampler.r)) =
         7 * Cardinality(UpperDraws(sampler.h, sampler.r))

\* a cone point in the half next to the base, drawn with u >= 1 / 8
C17_Witness ==
  /\ sampler.fn = "cone" /\ sampler.u = Q(1, 8)
  /\ HeightOf(sampler.point, sampler.h) = QDiv(sampler.h, Q(2, 1))

---------------------------------------------------------------------------
(* C18: in the program with direction-dependent rates (V2) the two rates   *)
(* of a group differ, every frame damps with the assembling rate when its  *)
(* target is 1 and with the scattering rate when its target is 0, and the  *)
(* rate in use changes only when the scene takes a flipped intent.         *)
C18_RateFollowsTarget ==
  [][variant = "V2" =>
       /\ \A g \in Groups : Lambda(g, TRUE) # Lambda(g, FALSE)
       /\ last' = "frame" =>
            \A g \in Groups :
              LET rate == IF SceneTarget = One THEN Lambda(g, TRUE)
                          ELSE Lambda(g, FALSE)
              IN  mixVal'[g] =
                    Add(SceneTarget,
                        Mul(Sub(mixVal[g], SceneTarget),
                            ExpNeg(Mul(rate, Num(delta')))))
       /\ (\E g \in Groups : Lambda(g, sceneIsTree') # Lambda(g, sceneIsTree))
            => last' = "commit" /\ sceneIsTree' # sceneIsTree]_vars

\* V2 has assembled part of the way and a frame now scatters, while App
\* already holds the opposite intent again
C18_Witness ==
  /\ variant = "V2" /\ last = "frame" /\ delta = MaxDelta
  /\ ~sceneIsTree /\ isTree
  /\ \A g \in Groups : MidFlight(g) /\ Less(mixVal[g], runStart[g])

\* one ref shared by the groups: the callback of g writes every blend value
GroupFrameShared(m, g, d) ==
  [h \in DOMAIN m |->
     damp(m[g], Target(sceneIsTree), Lambda(g, sceneIsTree), d)]

\* the useFrame callback of group g on the blend values m of the scene: it
\* reads and writes its own ref and closes over the shared isTree
GroupFrame(m, g, d) ==
  [m EXCEPT ![g] = damp(m[g], Target(sceneIsTree), Lambda(g, sceneIsTree), d)]

(* C19: a frame is the callbacks of the groups run one after the other,    *)
(* in either order of any two: the callback of g leaves the blend value of *)
(* every other group as it was and makes its own from its own old value    *)
(* alone, and all of them steer to the one shared intent.                  *)
C19_OwnBlendValue ==
  [][last' = "frame" =>
       \A g \in Groups :
         /\ mixVal'[g] = GroupFrame(mixVal, g, delta')[g]
         /\ \A h \in Groups \ {g} :
              /\ GroupFrame(mixVal, g, delta')[h] = mixVal[h]
              /\ GroupFrame(GroupFrame(mixVal, g, delta'), h, delta')[h] =
                   mixVal'[h]
              /\ GroupFrame(GroupFrame(mixVal, h, delta'), g, delta')[h] =
                   mixVal'[h]
         /\ delta' = LongDelta => mixVal'[g] = SceneTarget]_vars

\* a frame has moved groups whose blend values differ from one another
C19_Witness ==
  /\ last = "frame" /\ delta = 1 /\ variant = "V1"
  /\ MidFlight("Foliage") /\ MidFlight("Ornaments")
  /\ mixVal["Foliage"] # mixVal["Ornaments"]
  /\ mixVal["PhotoItem"] = mixVal["Ornaments"]

---------------------------------------------------------------------------
(* One PhotoItem and the textures its effect loads.                        *)
(*   "index"     src/index.tsx 385-404 and part_001 369-386: the effect    *)
(*               returns no cleanup.                                       *)
(*   "part_000"  part_000 203-238: the effect returns                      *)
(*               () => { if (texture) texture.dispose(); }, where texture  *)
(*               is the state of the render in which the effect ran.       *)
(* A texture is numbered by the order in which it finished loading; 0 is   *)
(* null.                                                                   *)

\* urls the item may be given, and effects it may run, in one lifetime
NUrls == 2
MaxEffects == 2

PhotoPrograms == {"index", "part_000"}

\* t.image.width / t.image.height of the images the urls may serve
ImageRatios == {Q(1, 1), Q(4, 3)}

\* loader.load(url, handleLoad, undefined, handleError) of effect e
PrimaryLoad(e, u) == [effect |-> e, url |-> u, backup |-> FALSE]

\* loader.load(BACKUP_PHOTOS[index % BACKUP_PHOTOS.length], ..) after an error
BackupLoad(l) == [effect |-> l.effect, url |-> l.url, backup |-> TRUE]

\* the first render and its effect: useState(null), then loader.load(url, ..)
MountedPhoto(prog) ==
  [mounted  |-> TRUE,
   prog     |-> prog,
   url      |-> 1,
   effect   |-> 1,       \* the effect whose cleanup is pending
   texture  |-> 0,       \* const [texture, setTexture] = useState(null)
   captured |-> 0,       \* the texture the pending cleanup closes over
   aspect   |-> QOne,    \* const [aspect, setAspect] = useState(1)
   loads    |-> {PrimaryLoad(1, 1)},   \* requests in flight
   requests |-> <<PrimaryLoad(1, 1)>>, \* every loader.load call, in order
   failed   |-> {},      \* requests that ended in an error
   loaded   |-> {},      \* textures that finished loading, by effect
   disposed |-> {},      \* textures dispose() was called on
   owed     |-> {}]      \* textures loaded for an effect whose cleanup ran

PhotoInit ==
  /\ Init /\ variant = "V1" /\ data = MountData(1)
  /\ photo = NoPhoto

\* <PhotoItem .. /> mounts
PhotoMount ==
  /\ ~photo.mounted /\ photo = NoPhoto
  /\ \E prog \in PhotoPrograms : photo' = MountedPhoto(prog)
  /\ UNCHANGED <<blend, isMobile, sampler, page>>

\* the aspect state after request l has loaded an image of the given ratio:
\* handleLoad calls setAspect(t.image.width / t.image.height), the backup's
\* callback does not
SetAspect(p, l, ratio) ==
  IF p.mounted /\ ~l.backup THEN ratio ELSE p.aspect

\* a request succeeds: handleLoad / the backup's callback calls setTexture(t),
\* which an unmounted component ignores
LoadSuccess ==
  /\ photo # NoPhoto
  /\ \E l \in photo.loads, ratio \in ImageRatios :
       LET t == Cardinality(photo.loaded) + 1
       IN  photo' = [photo EXCEPT
                       !.loads = @ \ {l},
                       !.loaded = @ \cup {[id |-> t, effect |-> l.effect,
                                           backup |-> l.backup,
                                           ratio |-> ratio]},
                       !.aspect = SetAspect(photo, l, ratio),
                       !.texture = IF photo.mounted THEN t ELSE @]
  /\ UNCHANGED <<blend, isMobile, sampler, page>>

\* a failed request asks for the backup again, whichever request it was
OnErrorRetry(l) == {BackupLoad(l)}

\* no request fails over to the backup
OnErrorNone(l) == {}

\* the requests the error callback of request l issues
OnError(l) == IF l.backup THEN {} ELSE {BackupLoad(l)}

\* a request fails: handleError asks for the backup image; a failed backup
\* request has no error callback
LoadError ==
  /\ photo # NoPhoto
  /\ \E l \in photo.loads :
       photo' = [photo EXCEPT
                   !.failed = @ \cup {l},
                   !.loads = (@ \ {l}) \cup OnError(l),
                   !.requests = IF OnError(l) = {} THEN @
                                ELSE Append(@, BackupLoad(l))]
  /\ UNCHANGED <<blend, isMobile, sampler, page>>

\* what the pending cleanup disposes
Disposals(p) ==
  IF p.prog = "part_000" /\ p.captured # 0 THEN {p.captured} ELSE {}

\* the pending cleanup runs: the textures loaded for its effect are owed a
\* dispose()
AfterCleanup(p) ==
  [p EXCEPT !.disposed = @ \cup Disposals(p),
            !.owed = @ \cup {t.id : t \in {x \in p.loaded : x.effect = p.effect}}]

\* the url prop changes: the cleanup of the last effect runs, then the effect
\* runs again in a render whose texture state is the one on display
UrlChange ==
  /\ photo # NoPhoto /\ photo.mounted /\ photo.effect < MaxEffects
  /\ \E u \in (1..NUrls) \ {photo.url} :
       photo' = [AfterCleanup(photo) EXCEPT
                   !.url = u,
                   !.effect = @ + 1,
                   !.captured = photo.texture,
                   !.loads = @ \cup {PrimaryLoad(photo.effect + 1, u)},
                   !.requests = Append(@, PrimaryLoad(photo.effect + 1, u))]
  /\ UNCHANGED <<blend, isMobile, sampler, page>>

\* the item unmounts: the cleanup of the last effect runs
PhotoUnmount ==
  /\ photo # NoPhoto /\ photo.mounted
  /\ photo' = [AfterCleanup(photo) EXCEPT !.mounted = FALSE]
  /\ UNCHANGED <<blend, isMobile, sampler, page>>

PhotoNext ==
  \/ PhotoMount
  \/ LoadSuccess
  \/ LoadError
  \/ UrlChange
  \/ PhotoUnmount

PhotoSpec == PhotoInit /\ [][PhotoNext]_vars

(* C20: once the cleanup of an effect has run, on unmount or on a change   *)
(* of url, every texture that had been loaded for that effect has been     *)
(* disposed.                                                               *)
C20_LoadedTexturesDisposed ==
  photo # NoPhoto => photo.owed \subseteq photo.disposed


\* how many times effect e called loader.load for its primary (b = FALSE) or
\* its backup (b = TRUE) image
RequestsOf(e, b) ==
  Cardinality({i \in 1..Len(photo.requests) :
                 photo.requests[i].effect = e /\ photo.requests[i].backup = b})

\* the primary, or the backup, request of effect e ended in an error
Failed(e, b) == \E l \in photo.failed : l.effect = e /\ l.backup = b

(* C21: each run of the item's effect asks for the backup image exactly    *)
(* when its primary request has failed, and at most once; it issues at     *)
(* most two requests; once the backup has failed too, none of its requests *)
(* is in flight and it has loaded no texture.  A mount whose url never     *)
(* changed, as every mount of the gallery is, has run one effect: it has   *)
(* issued at most two requests, and its texture is null once both failed.  *)
C21_BackupOnceAfterFailure ==
  photo # NoPhoto =>
    /\ \A e \in 1..photo.effect :
         /\ RequestsOf(e, TRUE) <= 1
         /\ RequestsOf(e, TRUE) = 1 <=> Failed(e, FALSE)
         /\ RequestsOf(e, FALSE) + RequestsOf(e, TRUE) <= 2
         /\ Failed(e, TRUE) =>
              /\ \A l \in photo.loads : l.effect # e
              /\ \A t \in photo.loaded : t.effect # e
    /\ photo.effect = 1 =>
         /\ Len(photo.requests) <= 2
         /\ Failed(1, TRUE) => photo.texture = 0 /\ photo.loads = {}

\* the primary and the backup request of a mount have both failed
C21_Witness ==
  /\ photo # NoPhoto /\ photo.effect = 1
  /\ Failed(1, FALSE) /\ Failed(1, TRUE)
  /\ Len(photo.requests) = 2 /\ photo.texture = 0

\* const h = 1.35 (index.tsx, part_001), const baseHeight = 1.2 (part_000)
BaseHeight(p) == IF p.prog = "part_000" THEN Q(6, 5) ELSE Q(27, 20)

\* <planeGeometry args={[baseHeight * aspect, baseHeight]} />: width / height
PlaneRatio(p) == QDiv(QMul(BaseHeight(p), p.aspect), BaseHeight(p))

\* the texture the material maps, as it was loaded
Displayed(p) == CHOOSE t \in p.loaded : t.id = p.texture

(* C24: whenever the item displays a loaded texture, the width / height    *)
(* ratio of its plane is the width / height ratio of that texture's image, *)
(* whether the primary or the backup request loaded it.                    *)
C24_PlaneKeepsImageRatio ==
  (photo # NoPhoto /\ photo.texture # 0) =>
     PlaneRatio(photo) = Displayed(photo).ratio

---------------------------------------------------------------------------
(* Snow, src/unnamed/part_001 204-235.  Heights are counted in units of    *)
(* 0.005, so that a frame's fall of 0.015 is 3 units.  The flakes' x and z *)
(* are never touched by a frame and are drawn as 0.                        *)

\* frames of the snow that are followed
MaxFrames == 4

\* y -= 0.015
SnowFall == 3
\* if (y < -15.0)
SnowFloor == -3000
\* y = 35.0
SnowTop == 7000

\* Math.random() * 50.0 - 10.0, for the draws 0 and 0.2
SnowDraws == {-2000, 0}

\* a float of the array: a number of units, or what arithmetic on undefined
\* yields
Float(v) == [nan |-> FALSE, v |-> v]
NaN == [nan |-> TRUE, v |-> 0]

\* array[k] of a Float32Array: undefined, and so NaN after y -= 0.015, when k
\* is not an index of the array
TypedGet(array, k) == IF k \in DOMAIN array THEN array[k] ELSE NaN

\* array[k] = v of a Float32Array: dropped when k is not an index of the array
TypedSet(array, k, v) == IF k \in DOMAIN array THEN [array EXCEPT ![k] = v]
                         ELSE array

\* reading or writing a Float32Array at any index raises no error
Throws(array, k) == FALSE

\* let y = array[i * 3 + 1]; y -= 0.015; if (y < -15.0) y = 35.0;
Fallen(y) == IF y.nan THEN NaN
             ELSE IF y.v - SnowFall < SnowFloor THEN Float(SnowTop)
             ELSE Float(y.v - SnowFall)

\* for (let i = 0; i < count; i++) { .. array[i * 3 + 1] = y; } from i on
RECURSIVE SnowLoop(_, _, _)
SnowLoop(array, i, count) ==
  IF i >= count THEN array
  ELSE SnowLoop(TypedSet(array, i * 3 + 1, Fallen(TypedGet(array, i * 3 + 1))),
                i + 1, count)

\* the array of useState(() => { const pos = new Float32Array(count * 3); .. })
SnowPositions(n, ys) ==
  [k \in 0..(3 * n - 1) |-> IF k % 3 = 1 THEN Float(ys[k \div 3]) ELSE Float(0)]

SnowInit == ResponsiveInit /\ data = MountData(1)

\* <Snow isMobile={isMobile} /> mounts
SnowMount ==
  /\ snow = NoSnow
  /\ \E ys \in [0..(Count("Snow") - 1) -> SnowDraws] :
       snow' = [mounted   |-> TRUE,
                allocated |-> Count("Snow"),
                array     |-> SnowPositions(Count("Snow"), ys),
                frames    |-> 0,      \* frames so far
                outside   |-> {},     \* indices the last frame used outside
                thrown    |-> FALSE]  \* whether the last frame raised
  /\ UNCHANGED <<blend, isMobile, sampler, photo, gallery, app, selected,
                 music>>

\* the viewport's width crosses 768: Snow renders again with the other count
\* and the positions of its useState
SnowResize ==
  /\ snow # NoSnow
  /\ isMobile' = ~isMobile
  /\ UNCHANGED <<blend, sampler, photo, snow, gallery, app, selected, music>>

\* useFrame((state) => { .. }) of Snow
SnowFrame ==
  /\ snow # NoSnow /\ snow.frames < MaxFrames
  /\ LET used == {i * 3 + 1 : i \in 0..(Count("Snow") - 1)}
     IN  snow' = [snow EXCEPT
                    !.array = SnowLoop(snow.array, 0, Count("Snow")),
                    !.frames = @ + 1,
                    !.outside = used \ DOMAIN snow.array,
                    !.thrown = \E k \in used : Throws(snow.array, k)]
  /\ UNCHANGED <<blend, isMobile, sampler, photo, gallery, app, selected,
                 music>>

SnowNext ==
  \/ SnowMount
  \/ SnowResize
  \/ SnowFrame

SnowSpec == SnowInit /\ [][SnowNext]_vars

(* C22: a frame of the snow that reads or writes the position array at an  *)
(* index outside it raises an error.                                       *)
C22_OutOfRangeFails ==
  (snow # NoSnow /\ snow.outside # {}) => snow.thrown

---------------------------------------------------------------------------
(* damp as a function of its four arguments, negative deltas included.     *)

\* quarters of the unit interval
Quarters == {[n |-> 0, e |-> 0], [n |-> 1, e |-> 2], [n |-> 1, e |-> 1],
             [n |-> 3, e |-> 2], [n |-> 1, e |-> 0]}

\* the rates the programs pass that are whole numbers
WholeRates == {Num(3), Num(4), Num(6)}

\* deltas of a clock that may run backwards
ClockDeltas == (-MaxDelta)..MaxDelta

DampInit == Init /\ variant = "V1" /\ data = MountData(1)

\* damp(c, t, l, d)
DampCall ==
  /\ sampler.fn = "none"
  /\ \E c \in Quarters, tree \in BOOLEAN, l \in WholeRates, d \in ClockDeltas :
       sampler' = [fn |-> "damp", c |-> c, t |-> Target(tree), l |-> l, d |-> d,
                   value |-> damp(c, Target(tree), l, d)]
  /\ UNCHANGED <<blend, isMobile, photo, page>>

DampNext ==
  \/ DampCall
  \/ SamplerReturn

DampSpec == DampInit /\ [][DampNext]_vars

---------------------------------------------------------------------------
(* The photo gallery of the second program, src/index.tsx 1157-1164, under *)
(* its TextureErrorBoundary and Suspense, 1315-1330 and 1353-1366.         *)

\* photos a non-empty list holds
NPhotos == 2

\* static getDerivedStateFromError() { return { hasError: true }; }
getDerivedStateFromError == TRUE

\* what PhotoGallery renders: nothing for an empty list; with photos,
\* useTexture(photos) suspends while they load and throws when one failed
PhotoGalleryRender(g) ==
  IF g.photos = 0 THEN "null"
  ELSE CASE g.textures = "pending" -> "suspended"
         [] g.textures = "failed"  -> "throws"
         [] OTHER                  -> "gallery"

\* <Suspense fallback={null}>
SuspenseRender(child) == IF child = "suspended" THEN "null" ELSE child

\* a boundary that renders its children whatever its state
BoundaryRenderThrough(hasError, children) == children

\* render() { if (this.state.hasError) return null; return this.props.children; }
BoundaryRender(hasError, children) == IF hasError THEN "null" ELSE children

\* what the scene shows in the gallery's place
GalleryShown ==
  BoundaryRender(gallery.hasError, SuspenseRender(PhotoGalleryRender(gallery)))

GalleryInit == Init /\ variant = "V2" /\ data = MountData(1)

\* the scene mounts <PhotoGallery photos={customPhotos} /> in its boundary
GalleryMount ==
  /\ gallery = NoGallery
  /\ \E n \in {0, NPhotos} :
       gallery' = [mounted  |-> TRUE,
                   photos   |-> n,
                   textures |-> IF n = 0 THEN "none" ELSE "pending",
                   hasError |-> FALSE]   \* this.state = { hasError: false }
  /\ UNCHANGED <<blend, isMobile, sampler, photo, snow, app, selected, music>>

\* every texture has loaded: useTexture returns them
TexturesLoaded ==
  /\ gallery # NoGallery /\ gallery.textures = "pending"
  /\ gallery' = [gallery EXCEPT !.textures = "loaded"]
  /\ UNCHANGED <<blend, isMobile, sampler, photo, snow, app, selected, music>>

\* a texture fails to load: useTexture throws and the boundary catches
TexturesFailed ==
  /\ gallery # NoGallery /\ gallery.textures = "pending"
  /\ gallery' = [gallery EXCEPT !.textures = "failed",
                                !.hasError = getDerivedStateFromError]
  /\ UNCHANGED <<blend, isMobile, sampler, photo, snow, app, selected, music>>

GalleryNext ==
  \/ Click
  \/ Commit
  \/ \E d \in ResponsiveDeltas : Frame(d)
  \/ GalleryMount
  \/ TexturesLoaded
  \/ TexturesFailed

GallerySpec == GalleryInit /\ [][GalleryNext]_vars

(* C25: once the boundary has caught a texture error, hasError stays true  *)
(* and nothing is rendered in the gallery's place, while a click can still *)
(* flip the intent and a frame can still run; and a gallery with an empty  *)
(* list of photos renders nothing.                                         *)
C25_GalleryDisabledForGood ==
  /\ [](gallery # NoGallery =>
          /\ gallery.hasError =>
               /\ GalleryShown = "null"
               /\ ENABLED Click
               /\ \E d \in ResponsiveDeltas : ENABLED Frame(d)
          /\ gallery.photos = 0 => GalleryShown = "null")
  /\ [][(gallery # NoGallery /\ gallery.hasError) =>
          (gallery' # NoGallery /\ gallery'.hasError)]_vars

\* the boundary has caught an error, and frames run to the scattered end
C25_Witness ==
  /\ gallery # NoGallery /\ gallery.hasError
  /\ ~sceneIsTree /\ last = "frame" /\ delta > 0

---------------------------------------------------------------------------
(* The button, click by click: the handler queues a state update, and App  *)
(* renders again once the queue is processed.                              *)

\* clicks that are followed
MaxClicks == 4

\* toggle={() => setIsTree(!isTree)} (first program, part_000, part_001): the
\* value is computed from the isTree of the render that made the handler;
\* toggleTree={() => setIsTree((s) => !s)} (second program): an updater
ToggleUpdate ==
  IF variant = "V1" THEN [updater |-> FALSE, value |-> ~isTree]
  ELSE [updater |-> TRUE, value |-> FALSE]

\* the state after the updates of the queue, first to last
RECURSIVE Processed(_, _)
Processed(state, queue) ==
  IF queue = <<>> THEN state
  ELSE Processed(IF Head(queue).updater THEN ~state ELSE Head(queue).value,
                 Tail(queue))

\* a click on the button: its handler runs
Press ==
  /\ app.clicks < MaxClicks
  /\ app' = [clicks |-> app.clicks + 1,
             queue |-> Append(app.queue, ToggleUpdate)]
  /\ UNCHANGED <<blend, isMobile, sampler, photo, snow, gallery, selected,
                 music>>

\* App renders again with the state the queued updates lead to
Render ==
  /\ app.queue # <<>>
  /\ isTree' = Processed(isTree, app.queue)
  /\ app' = [app EXCEPT !.queue = <<>>]
  /\ last' = "click"
  /\ UNCHANGED <<variant, sceneIsTree, data, mixVal, position, delta,
                 runStart, runTime, facing>>
  /\ UNCHANGED <<isMobile, sampler, photo, snow, gallery, selected, music>>

ToggleNext ==
  \/ Press
  \/ Render
  \/ Commit

ToggleSpec == Init /\ [][ToggleNext]_vars

(* C26: once App has rendered the clicks handled so far, the intent is the *)
(* initial intent after an even number of clicks and its negation after an *)
(* odd number, however clicks and renders interleave.                      *)
C26_ClickParity ==
  app.queue = <<>> => (isTree <=> app.clicks % 2 = 0)

---------------------------------------------------------------------------
(* The page around the canvas: the music button and the lightbox, next to  *)
(* the button and the frames of the first program.                         *)

\* the audio element: "paused", "starting" between a call of play() and the
\* settling of the promise it returned, or "playing"
AfterPlay(audio) == IF audio = "paused" THEN "starting" ELSE audio

\* useEffect(() => { audioRef.current = new Audio(BACKGROUND_MUSIC_URL); .. })
MusicMount ==
  /\ music = NoMusic
  /\ music' = [mounted |-> TRUE,
               playing |-> FALSE,      \* useState(false)
               audio   |-> "paused"]
  /\ UNCHANGED <<blend, isMobile, sampler, photo, snow, gallery, app, selected>>

\* toggle: if (playing) audio.pause(); else audio.play().catch(..);
\* setPlaying(!playing)
MusicToggle ==
  /\ music # NoMusic /\ music.mounted
  /\ music' = [music EXCEPT
                 !.audio = IF music.playing THEN "paused" ELSE AfterPlay(@),
                 !.playing = ~music.playing]
  /\ UNCHANGED <<blend, isMobile, sampler, photo, snow, gallery, app, selected>>

\* the promise of play() resolves: the audio plays
PlayResolved ==
  /\ music # NoMusic /\ music.audio = "starting"
  /\ music' = [music EXCEPT !.audio = "playing"]
  /\ UNCHANGED <<blend, isMobile, sampler, photo, snow, gallery, app, selected>>

\* the promise of play() rejects (playback not allowed, source not loaded):
\* .catch logs the error and the audio stays paused
PlayRejected ==
  /\ music # NoMusic /\ music.audio = "starting"
  /\ music' = [music EXCEPT !.audio = "paused"]
  /\ UNCHANGED <<blend, isMobile, sampler, photo, snow, gallery, app, selected>>

\* the cleanup of the effect: if (audioRef.current) audioRef.current.pause()
MusicUnmount ==
  /\ music # NoMusic /\ music.mounted
  /\ music' = [music EXCEPT !.mounted = FALSE, !.audio = "paused"]
  /\ UNCHANGED <<blend, isMobile, sampler, photo, snow, gallery, app, selected>>

\* the urls of the photo items
PhotoUrls == 1..NUrls

\* a lightbox over the page whatever the selection
LightboxAlways(src) == "lightbox"

\* const Lightbox = ({ src, close }) => { if (!src) return null; return .. }
Lightbox(src) == IF src = NoSelection THEN "null" ELSE "lightbox"

\* <group onClick={(e) => { e.stopPropagation(); onSelect(url); }}>
SelectPhoto ==
  /\ \E url \in PhotoUrls : selected' = url
  /\ UNCHANGED <<blend, isMobile, sampler, photo, snow, gallery, app, music>>

\* <div className="lightbox" onClick={close}>, close={() => setSelected(null)}
CloseLightbox ==
  /\ Lightbox(selected) = "lightbox"
  /\ selected' = NoSelection
  /\ UNCHANGED <<blend, isMobile, sampler, photo, snow, gallery, app, music>>

PageInit == Init /\ variant = "V1" /\ data = MountData(1)

PageNext ==
  \/ Click
  \/ Commit
  \/ \E d \in ResponsiveDeltas : Frame(d)
  \/ MusicMount
  \/ MusicToggle
  \/ PlayResolved
  \/ PlayRejected
  \/ MusicUnmount
  \/ SelectPhoto
  \/ CloseLightbox

PageSpec == PageInit /\ [][PageNext]_vars

(* C27: whenever no call of play() is waiting for its outcome, the playing *)
(* flag of the music button is true exactly when the audio plays; after    *)
(* the unmount the flag is false and the audio is paused.                  *)
C27_FlagAgreesWithAudio ==
  (music # NoMusic /\ music.audio # "starting") =>
     /\ music.playing <=> music.audio = "playing"
     /\ ~music.mounted => ~music.playing

(* C28: the lightbox is shown exactly when the selection is not null and   *)
(* can be clicked exactly then; a step that changes the selection sets it  *)
(* to the url of a photo or to null and leaves the intent, the scene's     *)
(* intent, the blend values and the positions alone; a step that changes   *)
(* the intent leaves the selection alone.                                  *)
C28_LightboxFollowsSelection ==
  /\ []((Lightbox(selected) = "lightbox" <=> selected # NoSelection)
        /\ (ENABLED CloseLightbox <=> selected # NoSelection))
  /\ [][/\ selected' # selected =>
             /\ selected' \in PhotoUrls \cup {NoSelection}
             /\ UNCHANGED <<isTree, sceneIsTree, mixVal, position>>
        /\ isTree' # isTree => selected' = selected]_vars

\* a photo is selected while the blend is under way to the scattered end
C28_Witness ==
  /\ selected \in PhotoUrls /\ Lightbox(selected) = "lightbox"
  /\ ~isTree /\ ~sceneIsTree /\ MidFlight("PhotoItem")

---------------------------------------------------------------------------
(* The first program, whose scene holds photo frames, with frames of       *)
(* positive delta that keep coming.                                        *)
FacingInit == Init /\ variant = "V1"

FacingSpec == FacingInit /\ [][Next]_vars /\ WF_vars(PositiveFrame)

\* the blend value of the photo frame exceeds 0.8 = 4 / 5
AboveFourFifths == ~Leq(Mul(Num(5), mixVal["PhotoItem"]), Num(4))

---------------------------------------------------------------------------
(* C30: in the responsive program, the count a group renders and loops     *)
(* with, the count of the current viewport, is the number of points its    *)
(* endpoint sets were created with.                                        *)
C30_CountMatchesAllocation ==
  \A g \in {"Foliage", "Ornaments"} :
     /\ Count(g) = Len(data[g].scatter)
     /\ Count(g) = Len(data[g].tree)

=============================================================================
